---- MODULE Spec2Model ----
(***************************************************************************)
(* A model of the magic-rust workspace: the text layout helpers and the    *)
(* card renderer (mtg_cards/src/display_cards.rs, mtg_cards/src/lib.rs),   *)
(* the header extractor (mtg_cards/src/header_cards.rs) and the HTTP       *)
(* client with the record mapper (mtg_api/src/lib.rs, mtg_cards/src/lib.rs)*)
(*                                                                         *)
(* The program keeps no state between calls, so a behaviour is one call:   *)
(* the state is the operation called, its inputs (with what the network    *)
(* answered), its result and the trace of the I/O steps it took.           *)
(*                                                                         *)
(* Text that the code walks character by character (the layout helpers) is *)
(* a sequence of characters; text that the code only compares, joins and   *)
(* hands to a parser (URLs, JSON bodies) is a TLA+ string.                 *)
(***************************************************************************)
EXTENDS Integers, Sequences, FiniteSets, TLC

VARIABLES pc, op, input, output, trace

vars == <<pc, op, input, output, trace>>

(***************************************************************************)
(* Bounds of the model.                                                    *)
(***************************************************************************)
\* longest left/right column text, in characters
MaxColLen == 3
\* longest wrapped body, in characters
MaxBodyLen == 4
\* largest line width handed to the layout helpers
MaxWidth == 6

(***************************************************************************)
(* Characters.  EmDash stands for U+2014, the dash of every creature type  *)
(* line ("Legendary Creature -- Human Monk"); it is one char and three     *)
(* bytes of UTF-8.  Every other character of the model is ASCII.           *)
(***************************************************************************)
EmDash == "U+2014"

NL == "\n"

\* char::len_utf8
len_utf8(ch) == IF ch = EmDash THEN 3 ELSE 1

\* str::len(): the length in BYTES of the UTF-8 encoding
RECURSIVE str_len(_)
str_len(s) == IF s = <<>> THEN 0 ELSE len_utf8(Head(s)) + str_len(Tail(s))

\* all sequences over alphabet of length at most n
RECURSIVE StringsUpTo(_, _)
StringsUpTo(alphabet, n) ==
    IF n = 0 THEN {<<>>}
    ELSE LET shorter == StringsUpTo(alphabet, n - 1)
         IN  shorter \cup {<<c>> \o s : c \in alphabet, s \in {t \in shorter : Len(t) = n - 1}}

\* n copies of ch
RECURSIVE Repeat(_, _)
Repeat(ch, n) == IF n <= 0 THEN <<>> ELSE <<ch>> \o Repeat(ch, n - 1)

(***************************************************************************)
(* display_cards.rs.  A fmt::Formatter is the text written so far; each    *)
(* helper returns the formatter after its writes.  The loops collect what  *)
(* they write in out, which the helper appends to the formatter.           *)
(***************************************************************************)
\* for _ in 0..max { write!(f, "{}", ch) }: one ch written per iteration
divider_loop(max, ch) == [i \in 1..max |-> ch]

divider(max, ch, f) == f \o divider_loop(max, ch) \o <<NL>>

\* a cols that always pads by at least one space
cols_pad_min1(pad, left, right, max) ==
    LET room == max - str_len(left) - str_len(right)
    IN  pad \o Repeat(" ", IF room < 1 THEN 1 ELSE room)

\* while pad.len() + left.len() + right.len() < max { pad += " " }
RECURSIVE cols_pad(_, _, _, _)
cols_pad(pad, left, right, max) ==
    IF str_len(pad) + str_len(left) + str_len(right) < max
    THEN cols_pad(pad \o <<" ">>, left, right, max)
    ELSE pad

cols(left, right, max, f) ==
    f \o left \o cols_pad(<<>>, left, right, max) \o right \o <<NL>>

\* count % max with max = 0 panics (remainder with a divisor of zero); it is
\* evaluated for the first character that is not a newline
wrap_panics(body, max) == max = 0 /\ \E i \in 1..Len(body) : body[i] # NL

\* a wrap whose line break takes the place of the character it precedes
RECURSIVE wrap_loop_drop(_, _, _, _)
wrap_loop_drop(rest, count, max, out) ==
    IF rest = <<>> THEN out
    ELSE LET ch == Head(rest)
         IN  IF ch = NL THEN wrap_loop_drop(Tail(rest), 0, max, out \o <<ch>>)
             ELSE IF count % max = 0
                  THEN wrap_loop_drop(Tail(rest), count + 1, max, out \o <<NL>>)
                  ELSE wrap_loop_drop(Tail(rest), count + 1, max, out \o <<ch>>)

\* a wrap that does not break before the first character
RECURSIVE wrap_loop_nolead(_, _, _, _)
wrap_loop_nolead(rest, count, max, out) ==
    IF rest = <<>> THEN out
    ELSE LET ch == Head(rest)
         IN  IF ch = NL THEN wrap_loop_nolead(Tail(rest), 0, max, out \o <<ch>>)
             ELSE IF count % max = 0 /\ count > 0
                  THEN wrap_loop_nolead(Tail(rest), count + 1, max, out \o <<NL, ch>>)
                  ELSE wrap_loop_nolead(Tail(rest), count + 1, max, out \o <<ch>>)

\* for ch in body.chars() { ... }: rest is what is left of body.chars()
RECURSIVE wrap_loop(_, _, _, _)
wrap_loop(rest, count, max, out) ==
    IF rest = <<>> THEN out
    ELSE LET ch == Head(rest)
         IN  IF ch = NL THEN wrap_loop(Tail(rest), 0, max, out \o <<ch>>)
             ELSE IF count % max = 0
                  THEN wrap_loop(Tail(rest), count + 1, max, out \o <<NL, ch>>)
                  ELSE wrap_loop(Tail(rest), count + 1, max, out \o <<ch>>)

wrap(body, max, f) == f \o wrap_loop(body, 0, max, <<>>) \o <<NL>>

(***************************************************************************)
(* lib.rs: Card and its Display.                                           *)
(***************************************************************************)
\* let maxl = 50;
maxl == 50

\* colored's Colorize::italic(): a ColoredString holding the text and a style
italic(s) == [input |-> s, style |-> "italic"]

\* &ColoredString coerces to &str through Deref, which hands out the text
\* without the style
deref(cs) == cs.input

\* impl fmt::Display for Card
Card_fmt(card, f) ==
    LET f1 == divider(maxl, "*", f)
        f2 == cols(card.name, card.mana_cost, maxl, f1)
        f3 == divider(maxl, "-", f2)
        f4 == cols(card.type_field, card.rarity, maxl, f3)
        f5 == divider(maxl, "-", f4)
        f6 == wrap(card.text, maxl, f5)
        f7 == wrap(deref(italic(card.flavor)), maxl, f6)
        f8 == cols(<<>>, card.set_name, maxl, f7)
    IN  divider(maxl, "*", f8)

(***************************************************************************)
(* The inputs of the layout calls.                                         *)
(***************************************************************************)
Widths == 0..MaxWidth

DivChars == {"*", "-", "."}

Lefts == StringsUpTo({"l", EmDash}, MaxColLen)

Rights == StringsUpTo({"r", EmDash}, MaxColLen)

\* "This is a test", the body of tests::format_wrap
ThisIsATest ==
    <<"T", "h", "i", "s", " ", "i", "s", " ", "a", " ", "t", "e", "s", "t">>

Bodies == StringsUpTo({"a", "b", EmDash, NL}, MaxBodyLen) \cup {ThisIsATest}

\* the fields of tests::display_card, and a few others
S_name == <<"n", "a", "m", "e">>

S_mana == <<"m", "a", "n", "a">>

S_type == <<"t", "y", "p", "e">>

S_rarity == <<"r", "a", "r", "i", "t", "y">>

S_set == <<"s", "e", "t">>

S_body == <<"b", "o", "d", "y">>

S_flavour == <<"f", "l", "a", "v", "o", "u", "r">>

S_creature == <<"H", "u", "m", "a", "n", " ", EmDash, " ", "M", "o", "n", "k">>

Cards ==
    [name : {S_name, <<>>}, mana_cost : {S_mana, <<>>},
     type_field : {S_type, S_creature}, rarity : {S_rarity, <<>>},
     set_name : {S_set, <<>>},
     text : {S_body, <<>>, <<"a", NL, "b">>, Repeat("a", maxl), Repeat("a", maxl + 1)},
     flavor : {S_flavour, <<>>, Repeat("b", maxl + 1)}]

(***************************************************************************)
(* The layout calls.                                                       *)
(***************************************************************************)
Init ==
    /\ pc = "idle"
    /\ op = "none"
    /\ input = <<>>
    /\ output = <<>>
    /\ trace = <<>>

Panic == [panic |-> "attempt to calculate the remainder with a divisor of zero"]

CallDivider ==
    /\ pc = "idle"
    /\ \E max \in Widths, ch \in DivChars :
          /\ input' = [max |-> max, ch |-> ch]
          /\ output' = divider(max, ch, <<>>)
    /\ op' = "divider"
    /\ pc' = "done"
    /\ UNCHANGED trace

CallCols ==
    /\ pc = "idle"
    /\ \E left \in Lefts, right \in Rights, max \in Widths :
          /\ input' = [left |-> left, right |-> right, max |-> max]
          /\ output' = cols(left, right, max, <<>>)
    /\ op' = "cols"
    /\ pc' = "done"
    /\ UNCHANGED trace

CallWrap ==
    /\ pc = "idle"
    /\ \E body \in Bodies, max \in Widths :
          /\ input' = [body |-> body, max |-> max]
          /\ output' = IF wrap_panics(body, max) THEN Panic ELSE wrap(body, max, <<>>)
    /\ op' = "wrap"
    /\ pc' = "done"
    /\ UNCHANGED trace

CallCardFmt ==
    /\ pc = "idle"
    /\ \E card \in Cards :
          /\ input' = [card |-> card]
          /\ output' = Card_fmt(card, <<>>)
    /\ op' = "Card::fmt"
    /\ pc' = "done"
    /\ UNCHANGED trace

NextDisplay == CallDivider \/ CallCols \/ CallWrap \/ CallCardFmt

SpecDisplay == Init /\ [][NextDisplay]_vars

(***************************************************************************)
(* Result<T, E>.                                                           *)
(***************************************************************************)
Ok(v) == [tag |-> "Ok", v |-> v]

Err(e) == [tag |-> "Err", e |-> e]

(***************************************************************************)
(* header_cards.rs.  A header value is a sequence of bytes; a header map   *)
(* gives each name a value or none.  A usize is its decimal digits without *)
(* leading zeros (<<>> is 0), since usize::MAX = 18446744073709551615 is   *)
(* the limit that matters.                                                 *)
(***************************************************************************)
ItemMissing(n) == [error |-> "ItemMissing", n |-> n]

\* impl From<ToStrError> / From<ParseIntError> for MTGHeaderError
Conversion(e) == [error |-> "Conversion", e |-> e]

\* HeaderValue::to_str: every byte is visible ASCII or a tab
to_str(bytes) ==
    IF \A i \in 1..Len(bytes) : bytes[i] = 9 \/ (bytes[i] >= 32 /\ bytes[i] < 127)
    THEN Ok(bytes)
    ELSE Err("failed to convert header to a str")

usize_MAX == <<1, 8, 4, 4, 6, 7, 4, 4, 0, 7, 3, 7, 0, 9, 5, 5, 1, 6, 1, 5>>

\* digits exceed usize::MAX: checked_mul / checked_add give None
overflows(digits) ==
    \/ Len(digits) > Len(usize_MAX)
    \/ /\ Len(digits) = Len(usize_MAX)
       /\ \E i \in 1..Len(digits) :
             /\ digits[i] > usize_MAX[i]
             /\ \A j \in 1..(i - 1) : digits[j] = usize_MAX[j]

\* the digit loop of usize::from_str: result = result * 10 + digit, checked
RECURSIVE parse_digits(_, _)
parse_digits(rest, result) ==
    IF rest = <<>> THEN Ok(result)
    ELSE LET c == Head(rest)
         IN  IF c < 48 \/ c > 57 THEN Err("invalid digit found in string")
             ELSE LET next == IF result = <<>> /\ c = 48 THEN <<>>
                              ELSE result \o <<c - 48>>
                  IN  IF overflows(next)
                      THEN Err("number too large to fit in target type")
                      ELSE parse_digits(Tail(rest), next)

\* str::parse::<usize>
parse(src) ==
    IF src = <<>> THEN Err("cannot parse integer from empty string")
    ELSE IF Head(src) \in {43, 45} /\ Len(src) = 1
         THEN Err("invalid digit found in string")
    ELSE IF Head(src) = 43 THEN parse_digits(Tail(src), <<>>)
    ELSE parse_digits(src, <<>>)

\* a lookup that takes a missing header for an empty one
get_field_or_default(res, item) ==
    IF ~res.headers[item].present THEN Ok(<<>>)
    ELSE LET text == to_str(res.headers[item].bytes)
         IN  IF text.tag = "Err" THEN Err(Conversion(text.e)) ELSE Ok(text.v)

\* MTGHeader::get_field
get_field(res, item) ==
    IF ~res.headers[item].present THEN Err(ItemMissing(item))
    ELSE LET text == to_str(res.headers[item].bytes)
         IN  IF text.tag = "Err" THEN Err(Conversion(text.e)) ELSE Ok(text.v)

\* Self::get_field(res, item).await?.parse()?
get_number(res, item) ==
    LET text == get_field(res, item)
    IN  IF text.tag = "Err" THEN text
        ELSE LET n == parse(text.v)
             IN  IF n.tag = "Err" THEN Err(Conversion(n.e)) ELSE n

\* an extraction that reads Total-Count before Count
from_response_swapped(res) ==
    LET link == get_field(res, "Link")
        page_size == get_number(res, "Page-Size")
        count == get_number(res, "Count")
        total_count == get_number(res, "Total-Count")
        ratelimit_limit == get_number(res, "Ratelimit-Limit")
        ratelimit_remaining == get_number(res, "Ratelimit-Remaining")
    IN  IF link.tag = "Err" THEN link
        ELSE IF page_size.tag = "Err" THEN page_size
        ELSE IF total_count.tag = "Err" THEN total_count
        ELSE IF count.tag = "Err" THEN count
        ELSE IF ratelimit_limit.tag = "Err" THEN ratelimit_limit
        ELSE IF ratelimit_remaining.tag = "Err" THEN ratelimit_remaining
        ELSE Ok([link |-> link.v, page_size |-> page_size.v, count |-> count.v,
                 total_count |-> total_count.v,
                 ratelimit_limit |-> ratelimit_limit.v,
                 ratelimit_remaining |-> ratelimit_remaining.v])

\* MTGHeader::from_response: the fields are evaluated in the order written,
\* and the first ? that sees an Err returns it
from_response(res) ==
    LET link == get_field(res, "Link")
        page_size == get_number(res, "Page-Size")
        count == get_number(res, "Count")
        total_count == get_number(res, "Total-Count")
        ratelimit_limit == get_number(res, "Ratelimit-Limit")
        ratelimit_remaining == get_number(res, "Ratelimit-Remaining")
    IN  IF link.tag = "Err" THEN link
        ELSE IF page_size.tag = "Err" THEN page_size
        ELSE IF count.tag = "Err" THEN count
        ELSE IF total_count.tag = "Err" THEN total_count
        ELSE IF ratelimit_limit.tag = "Err" THEN ratelimit_limit
        ELSE IF ratelimit_remaining.tag = "Err" THEN ratelimit_remaining
        ELSE Ok([link |-> link.v, page_size |-> page_size.v, count |-> count.v,
                 total_count |-> total_count.v,
                 ratelimit_limit |-> ratelimit_limit.v,
                 ratelimit_remaining |-> ratelimit_remaining.v])

(***************************************************************************)
(* The inputs of the header extraction.                                    *)
(***************************************************************************)
\* the six headers, in the order from_response reads them
HeaderNames ==
    <<"Link", "Page-Size", "Count", "Total-Count", "Ratelimit-Limit",
      "Ratelimit-Remaining">>

NoHeader == [present |-> FALSE, bytes |-> <<>>]

Header(bytes) == [present |-> TRUE, bytes |-> bytes]

\* "100"; "+5"; " 12 " (tests::conversion_error_parse_int); one byte that is
\* not text; "18446744073709551616" = usize::MAX + 1
HeaderValues ==
    {Header(<<49, 48, 48>>),
     Header(<<43, 53>>),
     Header(<<32, 49, 50, 32>>),
     Header(<<233>>),
     Header(<<49, 56, 52, 52, 54, 55, 52, 52, 48, 55, 51, 55, 48, 57, 53, 53, 49, 54,
              49, 54>>)}

HeaderMaps ==
    [{HeaderNames[i] : i \in 1..Len(HeaderNames)} -> HeaderValues \cup {NoHeader}]

CallHeaderFromResponse ==
    /\ pc = "idle"
    /\ \E headers \in HeaderMaps :
          /\ input' = [headers |-> headers]
          /\ output' = from_response([headers |-> headers])
    /\ op' = "MTGHeader::from_response"
    /\ pc' = "done"
    /\ UNCHANGED trace

NextHeader == CallHeaderFromResponse

SpecHeader == Init /\ [][NextHeader]_vars

(***************************************************************************)
(* JSON.  A document is null, a string, an array or an object; Render is   *)
(* its compact text, keys in the order of KeyOrder.                        *)
(***************************************************************************)
JNull == [t |-> "null"]

JStr(str) == [t |-> "string", s |-> str]

JArr(items) == [t |-> "array", items |-> items]

JObj(fields) == [t |-> "object", fields |-> fields]

KeyOrder ==
    <<"card", "cards", "name", "manaCost", "mana_cost", "type", "rarity", "setName",
      "text", "flavor">>

RECURSIVE Render(_)
RECURSIVE RenderItems(_, _)
RECURSIVE RenderFields(_, _, _)
Render(v) ==
    CASE v.t = "null" -> "null"
      [] v.t = "string" -> "\"" \o v.s \o "\""
      [] v.t = "array" -> "[" \o RenderItems(v.items, 1) \o "]"
      [] v.t = "object" -> "{" \o RenderFields(v.fields, 1, TRUE) \o "}"

RenderItems(items, i) ==
    IF i > Len(items) THEN ""
    ELSE (IF i > 1 THEN "," ELSE "") \o Render(items[i]) \o RenderItems(items, i + 1)

RenderFields(fields, k, first) ==
    IF k > Len(KeyOrder) THEN ""
    ELSE IF KeyOrder[k] \notin DOMAIN fields THEN RenderFields(fields, k + 1, first)
    ELSE (IF first THEN "" ELSE ",") \o "\"" \o KeyOrder[k] \o "\":"
             \o Render(fields[KeyOrder[k]]) \o RenderFields(fields, k + 1, FALSE)

(***************************************************************************)
(* The documents and bodies of the model.                                  *)
(***************************************************************************)
\* most cards in a list of the model
MaxCards == 2

\* the external names of Card's fields: rename_all = "camelCase", and
\* rename = "type" for type_field
CardKeys ==
    [name |-> "name", mana_cost |-> "manaCost", type_field |-> "type",
     rarity |-> "rarity", set_name |-> "setName", text |-> "text",
     flavor |-> "flavor"]

CardKeySet == {CardKeys[f] : f \in DOMAIN CardKeys}

EmptyObject == [k \in {} |-> JNull]

\* every card object with any of the seven keys, each "" or "x" ...
PlainCardObjects ==
    UNION {[K -> {JStr(""), JStr("x")}] : K \in SUBSET CardKeySet}

\* ... and a few with a key that is no string, or no key of Card
OddCardObjects ==
    {("name" :> JStr("x")) @@ ("flavor" :> JNull),
     ("name" :> JNull),
     ("name" :> JStr("x")) @@ ("mana_cost" :> JStr("x")),
     ("mana_cost" :> JNull)}

ListCardObjects ==
    {EmptyObject, ("name" :> JStr("x")), ("name" :> JStr("x")) @@ ("flavor" :> JStr(""))}

CardLists ==
    UNION {[1..n -> {JObj(c) : c \in ListCardObjects}] : n \in 0..MaxCards}

Documents ==
    {JObj("card" :> JObj(c)) : c \in PlainCardObjects \cup OddCardObjects}
      \cup {JObj("cards" :> JArr(l)) : l \in CardLists}
      \cup {JObj("card" :> JNull), JObj("card" :> JStr("x")), JObj("cards" :> JNull),
            JObj("cards" :> JArr(<<JNull>>)), JObj(EmptyObject), JArr(<<>>), JNull}

\* text that is JSON, with the document it is the text of: the compact
\* rendering of each document, and two renderings with white space
JsonTexts ==
    {<<Render(d), d>> : d \in Documents}
      \cup {<<"{\"cards\": []}", JObj("cards" :> JArr(<<>>))>>,
            <<"{\"cards\":[]}\n", JObj("cards" :> JArr(<<>>))>>}

\* text that is no JSON
Garbage == {"", "{\"cards\":[", "<html>Not Found</html>"}

BodyTexts == {p[1] : p \in JsonTexts} \cup Garbage

(***************************************************************************)
(* serde_json::from_str into Card, MultiCards and IndiCard.                *)
(***************************************************************************)
\* the syntax: the document of a text, or the syntax error
json_value(text) ==
    IF \E p \in JsonTexts : p[1] = text
    THEN Ok((CHOOSE p \in JsonTexts : p[1] = text)[2])
    ELSE Err("expected value")

\* a Card whose keys are all required
de_Card_required(v) ==
    IF v.t # "object" THEN Err("invalid type, expected struct Card")
    ELSE IF \E f \in DOMAIN CardKeys : CardKeys[f] \notin DOMAIN v.fields
         THEN Err("missing field")
    ELSE IF \E f \in DOMAIN CardKeys : v.fields[CardKeys[f]].t # "string"
         THEN Err("invalid type, expected a string")
    ELSE Ok([f \in DOMAIN CardKeys |-> v.fields[CardKeys[f]].s])

\* #[derive(Deserialize)] #[serde(rename_all = "camelCase")] #[serde(default)]
\* struct Card: a key that is there must hold a string, a key that is not
\* there leaves the field of Card::default() (String::new()), a key that is
\* no key of Card is skipped
de_Card(v) ==
    IF v.t # "object" THEN Err("invalid type, expected struct Card")
    ELSE IF \E f \in DOMAIN CardKeys :
               /\ CardKeys[f] \in DOMAIN v.fields
               /\ v.fields[CardKeys[f]].t # "string"
         THEN Err("invalid type, expected a string")
    ELSE Ok([f \in DOMAIN CardKeys |->
                IF CardKeys[f] \in DOMAIN v.fields THEN v.fields[CardKeys[f]].s
                ELSE ""])

\* #[derive(Deserialize)] struct MultiCards { cards: Vec<Card> }
de_MultiCards(v) ==
    IF v.t # "object" THEN Err("invalid type, expected struct MultiCards")
    ELSE IF "cards" \notin DOMAIN v.fields THEN Err("missing field cards")
    ELSE LET list == v.fields["cards"]
         IN  IF list.t # "array" THEN Err("invalid type, expected a sequence")
             ELSE IF \E i \in 1..Len(list.items) : de_Card(list.items[i]).tag = "Err"
                  THEN Err((CHOOSE r \in {de_Card(list.items[i]) : i \in 1..Len(list.items)} :
                              r.tag = "Err").e)
             ELSE Ok([cards |-> [i \in 1..Len(list.items) |-> de_Card(list.items[i]).v]])

\* #[derive(Deserialize)] struct IndiCard { card: Card }
de_IndiCard(v) ==
    IF v.t # "object" THEN Err("invalid type, expected struct IndiCard")
    ELSE IF "card" \notin DOMAIN v.fields THEN Err("missing field card")
    ELSE LET card == de_Card(v.fields["card"])
         IN  IF card.tag = "Err" THEN card ELSE Ok([card |-> card.v])

from_str_MultiCards(text) ==
    LET v == json_value(text) IN IF v.tag = "Err" THEN v ELSE de_MultiCards(v.v)

from_str_IndiCard(text) ==
    LET v == json_value(text) IN IF v.tag = "Err" THEN v ELSE de_IndiCard(v.v)

(***************************************************************************)
(* mtg_api/src/lib.rs.  What the network answers a GET with is net: a      *)
(* transport failure, or a response with its status, its body and whether  *)
(* the body can be read to the end.  An operation gives back its result    *)
(* and the I/O steps it took: [ret |-> Result, io |-> steps].              *)
(***************************************************************************)
CARDS_URL == "https://api.magicthegathering.io/v1/cards"

FailedRequest(status) == [error |-> "FailedRequest", status |-> status]

\* impl From<reqwest::Error> for APIError
WrappedReqwest(e) == [error |-> "WrappedReqwest", e |-> e]

None == [some |-> FALSE, x |-> ""]

Some(x) == [some |-> TRUE, x |-> x]

Sentinel == "{\"cards\":[]}"

\* a success that is only 200 OK
is_success_200(status) == status = 200

\* StatusCode::is_success
is_success(status) == 200 <= status /\ status < 300

\* a check that finds no body empty
check_for_empty_never(res) ==
    IF ~res.readable
    THEN [ret |-> Err(WrappedReqwest("error decoding response body")), io |-> <<"text">>]
    ELSE [ret |-> Ok(Some(res.text)), io |-> <<"text">>]

check_for_empty(res) ==
    IF ~res.readable
    THEN [ret |-> Err(WrappedReqwest("error decoding response body")), io |-> <<"text">>]
    ELSE IF res.text = Sentinel THEN [ret |-> Ok(None), io |-> <<"text">>]
    ELSE [ret |-> Ok(Some(res.text)), io |-> <<"text">>]

get_request(url, net) ==
    LET io == <<"GET " \o url>>
    IN  IF net.kind = "error" THEN [ret |-> Err(WrappedReqwest(net.e)), io |-> io]
        ELSE IF is_success(net.response.status)
             THEN [ret |-> Ok(net.response), io |-> io]
        ELSE [ret |-> Err(FailedRequest(net.response.status)), io |-> io]

card_id_info(card_id, net) == get_request(CARDS_URL \o "/" \o card_id, net)

card_exact_name_info(card_name, net) ==
    get_request(CARDS_URL \o "?name=\"" \o card_name \o "\"", net)

card_page(page_number, net) == get_request(CARDS_URL \o "?page=" \o page_number, net)

(***************************************************************************)
(* mtg_cards/src/lib.rs: the record mapper.                                *)
(***************************************************************************)
\* impl From<mtg_api::APIError> for MTGCardError
WrappedAPI(e) == [error |-> "WrappedAPI", e |-> e]

\* impl From<serde_json::Error> for MTGCardError
WrappedSerde(e) == [error |-> "WrappedSerde", e |-> e]

NoCardError == [error |-> "NoCardError"]

MultiCards_from_response(res) ==
    LET checked == check_for_empty(res)
    IN  IF checked.ret.tag = "Err"
        THEN [ret |-> Err(WrappedAPI(checked.ret.e)), io |-> checked.io]
        ELSE IF checked.ret.v.some
        THEN LET parsed == from_str_MultiCards(checked.ret.v.x)
             IN  [ret |-> IF parsed.tag = "Err" THEN Err(WrappedSerde(parsed.e)) ELSE parsed,
                  io |-> checked.io \o <<"from_str">>]
        ELSE [ret |-> Err(NoCardError), io |-> checked.io]

IndiCard_from_response(res) ==
    LET checked == check_for_empty(res)
    IN  IF checked.ret.tag = "Err"
        THEN [ret |-> Err(WrappedAPI(checked.ret.e)), io |-> checked.io]
        ELSE IF checked.ret.v.some
        THEN LET parsed == from_str_IndiCard(checked.ret.v.x)
             IN  [ret |-> IF parsed.tag = "Err" THEN Err(WrappedSerde(parsed.e)) ELSE parsed,
                  io |-> checked.io \o <<"from_str">>]
        ELSE [ret |-> Err(NoCardError), io |-> checked.io]

Digits == <<"0", "1", "2", "3", "4", "5", "6", "7", "8", "9">>

\* u64::to_string
RECURSIVE to_string(_)
to_string(n) ==
    IF n < 10 THEN Digits[n + 1] ELSE to_string(n \div 10) \o Digits[(n % 10) + 1]

\* fetched.await? and then from_response(..).await?
then_from_response(fetched, mapped) ==
    IF fetched.ret.tag = "Err"
    THEN [ret |-> Err(WrappedAPI(fetched.ret.e)), io |-> fetched.io]
    ELSE [ret |-> mapped.ret, io |-> fetched.io \o mapped.io]

id_find(id, net) ==
    LET fetched == card_id_info(to_string(id), net)
    IN  then_from_response(fetched, IndiCard_from_response(net.response))

name_find(name, net) ==
    LET fetched == card_exact_name_info(name, net)
    IN  then_from_response(fetched, MultiCards_from_response(net.response))

page_find(number, net) ==
    LET fetched == card_page(to_string(number), net)
    IN  then_from_response(fetched, MultiCards_from_response(net.response))

(***************************************************************************)
(* The inputs of the client and the mapper.                                *)
(***************************************************************************)
Statuses == {199, 200, 299, 300, 404}

\* every body with 200 OK; a few bodies with every status, read or cut off
Responses ==
    {[status |-> 200, text |-> t, readable |-> TRUE] : t \in BodyTexts}
      \cup [status : Statuses,
            text : {Sentinel, "{\"card\":{\"name\":\"x\"}}", "<html>Not Found</html>"},
            readable : BOOLEAN]

NetOutcomes ==
    {[kind |-> "error", e |-> "error sending request"]}
      \cup {[kind |-> "response", response |-> r] : r \in Responses}

CardIds == {"386616", "as32as"}

CardNames == {"Narset, Enlightened Master", "Narset, Unenlightened Student"}

PageNumbers == {"0", "1"}

Ids == {386616, 173132123}

Pages == {1, 100000}

CallCardIdInfo ==
    /\ pc = "idle"
    /\ \E card_id \in CardIds, net \in NetOutcomes :
          LET result == card_id_info(card_id, net)
          IN  /\ input' = [arg |-> card_id, net |-> net]
              /\ output' = result.ret
              /\ trace' = result.io
    /\ op' = "card_id_info"
    /\ pc' = "done"

CallCardExactNameInfo ==
    /\ pc = "idle"
    /\ \E name \in CardNames, net \in NetOutcomes :
          LET result == card_exact_name_info(name, net)
          IN  /\ input' = [arg |-> name, net |-> net]
              /\ output' = result.ret
              /\ trace' = result.io
    /\ op' = "card_exact_name_info"
    /\ pc' = "done"

CallCardPage ==
    /\ pc = "idle"
    /\ \E page \in PageNumbers, net \in NetOutcomes :
          LET result == card_page(page, net)
          IN  /\ input' = [arg |-> page, net |-> net]
              /\ output' = result.ret
              /\ trace' = result.io
    /\ op' = "card_page"
    /\ pc' = "done"

CallCheckForEmpty ==
    /\ pc = "idle"
    /\ \E res \in Responses :
          LET result == check_for_empty(res)
          IN  /\ input' = [res |-> res]
              /\ output' = result.ret
              /\ trace' = result.io
    /\ op' = "check_for_empty"
    /\ pc' = "done"

CallMultiCardsFromResponse ==
    /\ pc = "idle"
    /\ \E res \in Responses :
          LET result == MultiCards_from_response(res)
          IN  /\ input' = [res |-> res]
              /\ output' = result.ret
              /\ trace' = result.io
    /\ op' = "MultiCards::from_response"
    /\ pc' = "done"

CallIndiCardFromResponse ==
    /\ pc = "idle"
    /\ \E res \in Responses :
          LET result == IndiCard_from_response(res)
          IN  /\ input' = [res |-> res]
              /\ output' = result.ret
              /\ trace' = result.io
    /\ op' = "IndiCard::from_response"
    /\ pc' = "done"

CallIdFind ==
    /\ pc = "idle"
    /\ \E id \in Ids, net \in NetOutcomes :
          LET result == id_find(id, net)
          IN  /\ input' = [arg |-> id, net |-> net]
              /\ output' = result.ret
              /\ trace' = result.io
    /\ op' = "id_find"
    /\ pc' = "done"

CallNameFind ==
    /\ pc = "idle"
    /\ \E name \in CardNames, net \in NetOutcomes :
          LET result == name_find(name, net)
          IN  /\ input' = [arg |-> name, net |-> net]
              /\ output' = result.ret
              /\ trace' = result.io
    /\ op' = "name_find"
    /\ pc' = "done"

CallPageFind ==
    /\ pc = "idle"
    /\ \E number \in Pages, net \in NetOutcomes :
          LET result == page_find(number, net)
          IN  /\ input' = [arg |-> number, net |-> net]
              /\ output' = result.ret
              /\ trace' = result.io
    /\ op' = "page_find"
    /\ pc' = "done"

NextCards ==
    \/ CallCardIdInfo
    \/ CallCardExactNameInfo
    \/ CallCardPage
    \/ CallCheckForEmpty
    \/ CallMultiCardsFromResponse
    \/ CallIndiCardFromResponse
    \/ CallIdFind
    \/ CallNameFind
    \/ CallPageFind

SpecCards == Init /\ [][NextCards]_vars

(***************************************************************************)
(* The whole program: any one call.                                        *)
(***************************************************************************)
Next == NextDisplay \/ NextHeader \/ NextCards

Spec == Init /\ [][Next]_vars

(***************************************************************************)
(* Helpers of the layout properties.                                       *)
(***************************************************************************)
NoNewline(s) == \A i \in 1..Len(s) : s[i] # NL

IsAscii(s) == \A i \in 1..Len(s) : len_utf8(s[i]) = 1

StripNewlines(s) == SelectSeq(s, LAMBDA c : c # NL)

Spaces(n) == [i \in 1..n |-> " "]

\* left, then spaces up to column w, then right (no spaces when they do not fit)
PaddedTo(left, right, w) ==
    LET room == w - Len(left) - Len(right)
    IN  left \o Spaces(IF room < 0 THEN 0 ELSE room) \o right

Line(s) == s \o <<NL>>

\* the w-character chunks of body, a newline before each and one at the end
Chunked(body, w) ==
    LET n == Len(body)
        q == (n + w - 1) \div w
    IN  [p \in 1..(n + q + 1) |->
            IF p = n + q + 1 THEN NL
            ELSE IF (p - 1) % (w + 1) = 0 THEN NL
            ELSE body[((p - 1) \div (w + 1)) * w + ((p - 1) % (w + 1))]]

\* the lengths of the lines of s, each ended by a newline
RECURSIVE LineLengths(_, _)
LineLengths(s, cur) ==
    IF s = <<>> THEN {}
    ELSE IF Head(s) = NL THEN {cur} \cup LineLengths(Tail(s), 0)
    ELSE LineLengths(Tail(s), cur + 1)

WrapCase ==
    /\ pc = "done"
    /\ op = "wrap"
    /\ input.body # <<>>
    /\ NoNewline(input.body)
    /\ input.max >= 1

(***************************************************************************)
(* C1: rendering a card of short placeholder fields gives exactly nine     *)
(* lines: the '*' divider, name and mana cost padded to 50, the '-'        *)
(* divider, type and rarity padded to 50, the '-' divider, the rules text, *)
(* the flavor text, the set name right-aligned to 50, the '*' divider,     *)
(* with no blank line before the rules text or the flavor text.            *)
(***************************************************************************)
PlaceholderCard(card) ==
    /\ \A k \in DOMAIN card : IsAscii(card[k]) /\ NoNewline(card[k])
    /\ Len(card.name) + Len(card.mana_cost) <= maxl
    /\ Len(card.type_field) + Len(card.rarity) <= maxl
    /\ Len(card.set_name) <= maxl
    /\ card.text # <<>> /\ Len(card.text) < maxl
    /\ card.flavor # <<>> /\ Len(card.flavor) < maxl

NineLines(card) ==
    Line(Repeat("*", maxl))
      \o Line(PaddedTo(card.name, card.mana_cost, maxl))
      \o Line(Repeat("-", maxl))
      \o Line(PaddedTo(card.type_field, card.rarity, maxl))
      \o Line(Repeat("-", maxl))
      \o Line(card.text)
      \o Line(card.flavor)
      \o Line(PaddedTo(<<>>, card.set_name, maxl))
      \o Line(Repeat("*", maxl))

C1_DisplayCardNineLines ==
    (pc = "done" /\ op = "Card::fmt" /\ PlaceholderCard(input.card))
        => output = NineLines(input.card)

(***************************************************************************)
(* C2 as stated: every two-column row holds left and right unchanged with  *)
(* at least one padding space between them, whatever the width.            *)
(***************************************************************************)
C2_AlwaysOnePaddingSpace ==
    (pc = "done" /\ op = "cols")
        => \E n \in 1..(MaxWidth + 1) :
              output = input.left \o Spaces(n) \o input.right \o <<NL>>

(***************************************************************************)
(* C2 amended: every two-column row is left, then spaces only, then right, *)
(* then a newline, and there is at least one space exactly when the byte   *)
(* lengths of left and right sum to less than the width.                   *)
(***************************************************************************)
C2_PaddingOnlyWhenRoom ==
    (pc = "done" /\ op = "cols")
        => LET n == Len(output) - 1 - Len(input.left) - Len(input.right)
           IN  /\ n >= 0
               /\ output = input.left \o Spaces(n) \o input.right \o <<NL>>
               /\ (n >= 1) <=> (str_len(input.left) + str_len(input.right) < input.max)

\* a row whose columns leave no room: left is followed at once by right
C2_Witness ==
    /\ pc = "done"
    /\ op = "cols"
    /\ input.left # <<>>
    /\ input.right # <<>>
    /\ str_len(input.left) + str_len(input.right) + 1 > input.max
    /\ output = input.left \o input.right \o <<NL>>

(***************************************************************************)
(* C3: wrapping a non-empty text without newlines at a width of at least 1 *)
(* keeps its characters: the output without its newlines is the text.      *)
(***************************************************************************)
C3_WrapPreservesContent ==
    WrapCase => StripNewlines(output) = input.body

\* a text longer than two lines, so that the wrap broke inside it
C3_Witness ==
    /\ WrapCase
    /\ Len(input.body) > 2 * input.max
    /\ Len(output) > Len(input.body) + 3

(***************************************************************************)
(* C8: cols emits left, then max(0, w - len(left) - len(right)) spaces,    *)
(* then right, then a newline, so that a row whose columns fit is exactly  *)
(* w characters wide and one whose columns do not fit has no padding.      *)
(* The claim is stated for len read as the number of characters and for    *)
(* len read as the number of bytes; it holds of a row if it holds in       *)
(* either reading.                                                         *)
(***************************************************************************)
C8_Row(left, right, w, row, len(_)) ==
    LET room == w - len(left) - len(right)
    IN  /\ row = left \o Spaces(IF room < 0 THEN 0 ELSE room) \o right \o <<NL>>
        /\ len(left) + len(right) <= w => Len(row) - 1 = w

C8_ColsPadsToWidth ==
    (pc = "done" /\ op = "cols")
        => \/ C8_Row(input.left, input.right, input.max, output, Len)
           \/ C8_Row(input.left, input.right, input.max, output, str_len)

HeaderCase == pc = "done" /\ op = "MTGHeader::from_response"

IsText(bytes) ==
    \A i \in 1..Len(bytes) : bytes[i] = 9 \/ (bytes[i] >= 32 /\ bytes[i] < 127)

\* field i of HeaderNames is there, is text and, but for Link, is a number
FieldValid(headers, i) ==
    LET h == headers[HeaderNames[i]]
    IN  /\ h.present
        /\ IsText(h.bytes)
        /\ i > 1 => parse(h.bytes).tag = "Ok"

(***************************************************************************)
(* C5 as stated: whenever the Total-Count header is missing, whatever the  *)
(* other five headers, extraction fails with ItemMissing naming            *)
(* Total-Count, never with a Conversion error.                             *)
(***************************************************************************)
C5_MissingTotalCountAlwaysNamed ==
    (HeaderCase /\ ~input.headers["Total-Count"].present)
        => output = Err(ItemMissing("Total-Count"))

(***************************************************************************)
(* C5 amended: when the Total-Count header is missing and the three        *)
(* headers read before it (Link, Page-Size, Count) are present and valid,  *)
(* whatever the two rate-limit headers, extraction fails with ItemMissing  *)
(* naming Total-Count, not with a Conversion error.                        *)
(***************************************************************************)
C5_MissingTotalCountNamed ==
    (/\ HeaderCase
     /\ ~input.headers["Total-Count"].present
     /\ \A i \in 1..3 : FieldValid(input.headers, i))
        => output = Err(ItemMissing("Total-Count"))

\* Total-Count missing behind three valid headers, a rate-limit header that
\* is no number after it
C5_Witness ==
    /\ HeaderCase
    /\ ~input.headers["Total-Count"].present
    /\ \A i \in 1..3 : FieldValid(input.headers, i)
    /\ input.headers["Ratelimit-Limit"].present
    /\ ~FieldValid(input.headers, 5)
    /\ output = Err(ItemMissing("Total-Count"))

(***************************************************************************)
(* C10: extraction gives a snapshot exactly when all six headers are       *)
(* present, are text and (the last five) parse as unsigned integers;       *)
(* otherwise it gives the error of the first header, in the declared       *)
(* order, that fails: ItemMissing naming it when it is missing, Conversion *)
(* when it is not text or not a number, whatever the later headers hold.   *)
(***************************************************************************)
C10_HeaderAllOrNothingInOrder ==
    HeaderCase =>
        LET bad == {i \in 1..Len(HeaderNames) : ~FieldValid(input.headers, i)}
        IN  IF bad = {}
            THEN /\ output.tag = "Ok"
                 /\ DOMAIN output.v = {"link", "page_size", "count", "total_count",
                                       "ratelimit_limit", "ratelimit_remaining"}
                 /\ output.v.link = input.headers["Link"].bytes
            ELSE LET first == CHOOSE i \in bad : \A j \in bad : i <= j
                     h == input.headers[HeaderNames[first]]
                 IN  /\ output.tag = "Err"
                     /\ ~h.present => output.e = ItemMissing(HeaderNames[first])
                     /\ h.present => output.e.error = "Conversion"

\* Count is no number and Total-Count, after it, is missing: Count's error
C10_Witness ==
    /\ HeaderCase
    /\ FieldValid(input.headers, 1)
    /\ FieldValid(input.headers, 2)
    /\ input.headers["Count"].present
    /\ ~FieldValid(input.headers, 3)
    /\ ~input.headers["Total-Count"].present
    /\ output.tag = "Err"
    /\ output.e.error = "Conversion"

(***************************************************************************)
(* Helpers of the client and mapper properties.                            *)
(***************************************************************************)
FetchOps == {"card_id_info", "card_exact_name_info", "card_page"}

FindOps == {"id_find", "name_find", "page_find"}

FromResponseOps == {"MultiCards::from_response", "IndiCard::from_response"}

\* the GET completed with a 2xx status
Got2xx(net) ==
    /\ net.kind = "response"
    /\ net.response.status >= 200
    /\ net.response.status <= 299

\* the error of a GET that did not
FetchError(net) ==
    IF net.kind = "error" THEN [error |-> "WrappedReqwest", e |-> net.e]
    ELSE [error |-> "FailedRequest", status |-> net.response.status]

OneGetOnly == Len(trace) = 1 /\ trace[1] \notin {"text", "from_str"}

\* the record of a card object: the string of each key there, "" otherwise
RecordOf(fields) ==
    [f \in DOMAIN CardKeys |->
        IF CardKeys[f] \in DOMAIN fields THEN fields[CardKeys[f]].s ELSE ""]

\* the bodies {"card":{...}} of the card objects with string values
IndiTexts == {<<Render(JObj("card" :> JObj(c))), c>> : c \in PlainCardObjects}

\* the bodies {"cards":[...]} of the card lists that are not empty
MultiTexts ==
    {<<Render(JObj("cards" :> JArr(l))), l>> : l \in {m \in CardLists : m # <<>>}}

\* the body the mapper was given, once it had one to read
MappedBody ==
    IF op \in FromResponseOps THEN input.res.text ELSE input.net.response.text

MapperRead ==
    /\ pc = "done"
    /\ \/ op \in FromResponseOps /\ input.res.readable
       \/ op \in FindOps /\ Got2xx(input.net) /\ input.net.response.readable

(***************************************************************************)
(* C4: a response whose body is exactly {"cards":[]} gives the not-found   *)
(* error NoCardError on both parse-and-check paths, and so in id_find,     *)
(* name_find and page_find: never a success with an empty list, never a    *)
(* deserialization error.                                                  *)
(***************************************************************************)
C4_SentinelIsNoCardError ==
    (MapperRead /\ MappedBody = "{\"cards\":[]}")
        => output = Err([error |-> "NoCardError"])

\* the single-card path given the sentinel, which is no {"card": ...} at all
C4_Witness ==
    /\ MapperRead
    /\ op = "IndiCard::from_response"
    /\ MappedBody = "{\"cards\":[]}"
    /\ output = Err([error |-> "NoCardError"])
    /\ trace = <<"text">>

(***************************************************************************)
(* C6: a fetch returns Ok(response) exactly when its one GET completed     *)
(* with a 2xx status; any other status gives FailedRequest with that       *)
(* status, a transport failure gives WrappedReqwest.  A find given such an *)
(* error returns it unchanged inside WrappedAPI, having read no body,      *)
(* deserialized nothing and sent no second request.                        *)
(***************************************************************************)
C6_FetchErrorsPropagate ==
    /\ (pc = "done" /\ op \in FetchOps) =>
          /\ OneGetOnly
          /\ output.tag = "Ok" <=> Got2xx(input.net)
          /\ Got2xx(input.net) => output = Ok(input.net.response)
          /\ ~Got2xx(input.net) => output = Err(FetchError(input.net))
    /\ (pc = "done" /\ op \in FindOps /\ ~Got2xx(input.net)) =>
          /\ OneGetOnly
          /\ output = Err([error |-> "WrappedAPI", e |-> FetchError(input.net)])

\* a find whose GET came back 299 went on to the body; one that came back
\* 404 stopped with the status
C6_Witness ==
    /\ pc = "done"
    /\ op = "id_find"
    /\ input.net.kind = "response"
    /\ input.net.response.status = 404
    /\ output = Err([error |-> "WrappedAPI",
                     e |-> [error |-> "FailedRequest", status |-> 404]])
    /\ OneGetOnly

(***************************************************************************)
(* C7: a key missing from a card object leaves the empty string in the     *)
(* record, for each of name, manaCost, type, rarity, setName, text and     *)
(* flavor, so that the object without the key and the object with the key  *)
(* set to "" give the same record.                                         *)
(***************************************************************************)
C7_AbsentKeyIsEmptyString ==
    /\ (MapperRead /\ op \in {"IndiCard::from_response", "id_find"}) =>
          \A p \in IndiTexts :
              MappedBody = p[1] =>
                  /\ output = Ok([card |-> RecordOf(p[2])])
                  /\ \A k \in CardKeySet \ DOMAIN p[2] :
                        de_Card(JObj(p[2] @@ (k :> JStr("")))) = Ok(output.v.card)
    /\ (MapperRead /\ op \in {"MultiCards::from_response", "name_find", "page_find"}) =>
          \A p \in MultiTexts :
              MappedBody = p[1] =>
                  output = Ok([cards |-> [i \in 1..Len(p[2]) |-> RecordOf(p[2][i].fields)]])

\* a card with a name and no flavor
C7_Witness ==
    /\ MapperRead
    /\ op = "id_find"
    /\ MappedBody = "{\"card\":{\"name\":\"x\"}}"
    /\ output.tag = "Ok"
    /\ output.v.card.name = "x"
    /\ output.v.card.flavor = ""

====
